---- MODULE Spec2Model ----
(***************************************************************************)
(* Model of package alg (AF_ALG hashing sessions).                         *)
(*                                                                         *)
(* Two builds of the Linux implementation are in the repository: the       *)
(* sendto build (src/alg_linux.go), whose Write is one Sendto with         *)
(* MSG_MORE, and the pipe build (src/unnamed/part_001), whose Write is a   *)
(* vmsplice into a pipe followed by a splice into the session socket and   *)
(* which adds ReadFrom.  The variable `variant` says which build runs.     *)
(*                                                                         *)
(* The kernel is the environment: descriptors are handed out lowest-free,  *)
(* a hash socket accumulates the bytes sent with the more-data flag and    *)
(* finalizes on a send without it or on a read.  Results of system calls   *)
(* that the code does not control (short transfers, errors) are chosen     *)
(* nondeterministically.                                                   *)
(***************************************************************************)
EXTENDS Integers, Sequences, FiniteSets, TLC

\* ------------------------------------------------------------------ bounds
\* Highest descriptor number; descriptors 0..2 are the standard streams.
MaxFD == 8
\* Conns that Dial may return over a run.
MaxConns == 1
\* Sessions (finished or in-flight Hash calls) over a run.
MaxHashes == 1
\* Longest byte slice handed to Write.
MaxWrite == 2
\* Bytes callers submit to the sessions over a run.
MaxData == 3
\* Capacity of a pipe, in bytes (65536 in the kernel).
PipeCap == 3
\* Stand-in for defaultSocketBufferSize (64 KiB), scaled to the data sizes.
ChunkSize == 2
\* Length of the source file.
MaxFile == 2
\* Stand-in for the size of io.Copy's buffer (32 KiB), scaled likewise.
CopyBuf == 2
\* Sum calls over a run.
MaxSums == 2
\* System calls that fail over a run for a reason other than a full
\* descriptor table.
MaxFaults == 1

\* Conns and failing system calls in the runs of SpecDial.
DialConns == 1
DialFaults == 1
\* Sessions, bytes, Sum calls and failing system calls in the runs of
\* SpecShare.
ShareHashes == 2
ShareData == 2
ShareSums == 1
ShareFaults == 1
\* Bytes, Sum calls and failing system calls in the runs of SpecClose.
CloseData == 1
CloseSums == 1
CloseFaults == 0
\* Calls made in the runs of SpecOthers.
OthersCalls == 5
\* Sessions, bytes, Sum calls and failing system calls in the runs of
\* SpecSession.
SessHashes == 1
SessData == 2
SessSums == 1
SessFaults == 1
\* Bytes and Sum calls in the runs of SpecReset.
ResetData == 2
ResetSums == 2
\* Bytes and failing system calls in the runs of SpecReadFrom.
RfData == 2
RfFaults == 2
\* Nested calls of ReadFrom a run follows.
MaxDepth == 3
\* Sum calls in the runs of SpecSum.
SumCalls == 3

\* ------------------------------------------------------- program constants
\* make([]byte, 128): the session's scratch buffer.
BufLen == 128
\* n returned by the syscall wrappers when the call fails (int(r0), r0 = -1).
ErrN == 0 - 1

FDs == 3..MaxFD

Min(a, b) == IF a < b THEN a ELSE b

Take(s, n) == SubSeq(s, 1, n)
Drop(s, n) == SubSeq(s, n + 1, Len(s))

\* n copies of x.
Rep(x, n) == [i \in 1..n |-> x]

\* ---------------------------------------------------------------- alg.go
typeHash == "hash"
nameMD5 == "md5"
nameSHA1 == "sha1"
nameSHA256 == "sha256"

\* hashSizes with an extra accepted name: a registry that knows too much.
hashSizesLax(name) ==
    CASE name = nameMD5 -> [size |-> 16, blockSize |-> 64, ok |-> TRUE]
      [] name = nameSHA1 -> [size |-> 20, blockSize |-> 64, ok |-> TRUE]
      [] name = nameSHA256 -> [size |-> 32, blockSize |-> 64, ok |-> TRUE]
      [] OTHER -> [size |-> 64, blockSize |-> 128, ok |-> TRUE]

hashSizes(name) ==
    CASE name = nameMD5 -> [size |-> 16, blockSize |-> 64, ok |-> TRUE]
      [] name = nameSHA1 -> [size |-> 20, blockSize |-> 64, ok |-> TRUE]
      [] name = nameSHA256 -> [size |-> 32, blockSize |-> 64, ok |-> TRUE]
      [] OTHER -> [size |-> 0, blockSize |-> 0, ok |-> FALSE]

\* Arguments callers hand to Dial.
DialTypes == {typeHash, "skcipher"}
DialNames == {nameMD5, nameSHA1, nameSHA256, "sha512"}

\* ------------------------------------------------------------- the kernel
\* One slot of the descriptor table.  kind: "free", "alg" (socket made by
\* unix.Socket), "op" (socket made by accept: one hashing session), "pr" and
\* "pw" (read and write end of a pipe).  data: the bytes a hash socket has
\* accumulated, or the bytes waiting in a pipe (kept at the read end).  more:
\* the hash socket's last send carried the more-data flag.  peer: the read
\* end of a write end.
FreeSlot == [kind |-> "free", data |-> <<>>, more |-> FALSE, peer |-> 0]
Slot(k) == [FreeSlot EXCEPT !.kind = k]

IsFree(t, fd) == t[fd].kind = "free"

\* The descriptor the kernel hands out next: the lowest free one, 0 if none.
LowestFree(t) ==
    IF \E fd \in FDs : IsFree(t, fd)
    THEN CHOOSE fd \in FDs : IsFree(t, fd) /\ \A g \in FDs : IsFree(t, g) => fd <= g
    ELSE 0

\* The digest the engine computes; injective, so that different inputs are
\* told apart.
Digest(data) == <<Len(data)>> \o data

\* A send on a hash socket: without the more-data flag on the previous send
\* the engine starts a new digest; without it on this one it finalizes.
EngSend(e, bytes, moreFlag) ==
    [e EXCEPT !.data = (IF e.more THEN e.data ELSE <<>>) \o bytes,
              !.more = moreFlag]

\* A read on a hash socket: finalizes, yields the digest, starts afresh.
EngOut(e) == Digest(e.data)
EngRead(e) == [e EXCEPT !.data = <<>>, !.more = FALSE]

\* One system call as the code issued it.
Call(op, fd, out, p, flags, to, res) ==
    [op |-> op, fd |-> fd, out |-> out, p |-> p, flags |-> flags, to |-> to,
     res |-> res]

NoAddr == [Type |-> "", Name |-> ""]

\* ------------------------------------------------------------------ state
VARIABLES
    variant,  \* "sendto" (src/alg_linux.go), "pipe" (src/unnamed/part_001) or
              \* "others" (src/alg_others.go, the build for other platforms)
    fdt,      \* the process's descriptor table
    conns,    \* the Conns returned by Dial, in order
    hashes,   \* the sessions returned by Hash, in order
    pend,     \* Hash calls between their accept and their pipe creation
    rf,       \* the ReadFrom call in progress
    ret,      \* what the last call returned
    calls,    \* the system calls the last step issued
    tsock,    \* the testSocket of alg_linux_test.go, for sessions made on it
    faults,   \* system calls that failed so far
    lim       \* what a run may use up: conns, sessions, bytes, Sums, failures

vars == <<variant, fdt, conns, hashes, pend, rf, ret, calls, tsock, faults, lim>>

\* What a call returned.  op: the call; h, c: the session or conn it was made
\* on or returned; b: the bytes handed in (Write's b, Sum's prefix, the bytes
\* the source of a ReadFrom holds); n, err, val: the count, error and bytes
\* returned; panic: the call did not return but panicked; path, e0, fpos,
\* munmaps: for ReadFrom, the strategy that handled the call, the session
\* socket's state before it, the source file's read position after it and the
\* Munmap calls made; typ, name, size, blockSize: the arguments of dial and
\* of conn.Hash; sent: the bytes the session socket received during a
\* ReadFrom; src, tried, movers: the source of a ReadFrom, the strategies it
\* tried in order and those that moved bytes; depth: how deep the calls of
\* ReadFrom were nested.
Ret0 ==
    [op |-> "none", h |-> 0, c |-> 0, b |-> <<>>, n |-> 0, err |-> "nil",
     val |-> <<>>, panic |-> FALSE, path |-> "none", typ |-> "", name |-> "",
     e0 |-> <<>>, fpos |-> 0, munmaps |-> 0, size |-> 0, blockSize |-> 0,
     sent |-> 0, src |-> <<>>, tried |-> <<>>, movers |-> {}, depth |-> 0]

\* The frame of a ReadFrom call.  pc: the loop it is in ("sendfile", "splice",
\* "generic") or "idle"; h: the session; src: the source; stream: the bytes
\* the source holds for the call; offset, remain, written: sendfile's
\* variables; bytes, total, start, end: splice's; rest, written: what
\* io.Copy still has to read and its count; fpos: the file's read position;
\* e0: the session socket's state when the call began; sent: the bytes the
\* session socket received so far; tried: the strategies tried, in order;
\* movers: the strategies that moved bytes; depth: the calls of ReadFrom on
\* the stack; turn: the parity of the turns the loop has made.
RfIdle ==
    [pc |-> "idle", h |-> 0, src |-> <<>>, stream |-> <<>>, offset |-> 0,
     remain |-> 0, written |-> 0, bytes |-> <<>>, total |-> 0, start |-> 0,
     end |-> 0, rest |-> <<>>, fpos |-> 0, e0 |-> <<>>, sent |-> 0,
     tried |-> <<>>, movers |-> {}, depth |-> 0, turn |-> 0]

\* The state after the program starts, with what the run may use up.
InitWith(l) ==
    /\ variant \in {"sendto", "pipe"}
    /\ fdt = [fd \in FDs |-> FreeSlot]
    /\ conns = <<>>
    /\ hashes = <<>>
    /\ pend = {}
    /\ rf = RfIdle
    /\ ret = Ret0
    /\ calls = <<>>
    /\ tsock = [read |-> <<>>]
    /\ faults = 0
    /\ lim = l

Init ==
    InitWith([conns |-> MaxConns, hashes |-> MaxHashes, data |-> MaxData,
              sums |-> MaxSums, faults |-> MaxFaults,
              marks |-> FALSE])

Idle == rf.pc = "idle"

\* The outcome o of a system call is one the environment may produce now, and
\* the failure count after it.
Fault(o) == o.err \notin {"nil", "EMFILE"}
MayHappen(o) == Fault(o) => faults < lim.faults
Faults(o) == faults' = IF Fault(o) THEN faults + 1 ELSE faults

RECURSIVE SumOver(_, _)
SumOver(f, S) ==
    IF S = {} THEN 0
    ELSE LET x == CHOOSE y \in S : TRUE IN f[x] + SumOver(f, S \ {x})

\* ------------------------------------------------------------------- Dial
\* dial and bind: unix.Socket, then Bind; the new socket or 0, and the error.
OsDial(t, typ, name) ==
    LET fd == LowestFree(t)
        addr == [Type |-> typ, Name |-> name]
        sock == Call("socket", 0, 0, <<>>, {}, NoAddr, fd)
        bnd(r) == Call("bind", fd, 0, <<>>, {}, addr, r)
    IN  {[fd |-> 0, err |-> "EAFNOSUPPORT", t |-> t,
          calls |-> <<[sock EXCEPT !.res = ErrN]>>]}
        \cup
        (IF fd = 0
         THEN {[fd |-> 0, err |-> "EMFILE", t |-> t,
                calls |-> <<[sock EXCEPT !.res = ErrN]>>]}
         ELSE {[fd |-> fd, err |-> "nil", t |-> [t EXCEPT ![fd] = Slot("alg")],
                calls |-> <<sock, bnd(0)>>],
               [fd |-> 0, err |-> "ENOENT", t |-> [t EXCEPT ![fd] = Slot("alg")],
                calls |-> <<sock, bnd(ErrN)>>]})

Dial(typ, name) ==
    /\ Idle
    /\ LET hs == hashSizes(name)
           r0 == [Ret0 EXCEPT !.op = "Dial", !.typ = typ, !.name = name]
       IN  IF typ # typeHash
           THEN /\ ret' = [r0 EXCEPT !.err = "unsupported type"]
                /\ calls' = <<>>
                /\ UNCHANGED <<fdt, conns, faults>>
           ELSE IF ~hs.ok
           THEN /\ ret' = [r0 EXCEPT !.err = "unknown hash"]
                /\ calls' = <<>>
                /\ UNCHANGED <<fdt, conns, faults>>
           ELSE /\ Len(conns) < lim.conns
                /\ \E o \in OsDial(fdt, typ, name) :
                      /\ MayHappen(o)
                      /\ Faults(o)
                      /\ fdt' = o.t
                      /\ calls' = o.calls
                      /\ IF o.err = "nil"
                         THEN /\ conns' = Append(conns,
                                     [s |-> o.fd,
                                      addr |-> [Type |-> typ, Name |-> name],
                                      size |-> hs.size, blockSize |-> hs.blockSize,
                                      closed |-> FALSE])
                              /\ ret' = [r0 EXCEPT !.c = Len(conns) + 1]
                         ELSE /\ conns' = conns
                              /\ ret' = [r0 EXCEPT !.err = o.err]
    /\ UNCHANGED <<variant, lim, hashes, pend, rf, tsock>>

\* A Close that closes every socket of the family, the sessions' too.
ConnCloseAll(t, c) ==
    [fd \in FDs |-> IF t[fd].kind \in {"alg", "op"} THEN FreeSlot ELSE t[fd]]

\* conn.Close: c.s.Close(), the conn's socket and nothing else.
ConnCloseFds(t, c) == [t EXCEPT ![conns[c].s] = FreeSlot]

ConnClose(c) ==
    /\ Idle
    /\ ~conns[c].closed
    /\ fdt' = ConnCloseFds(fdt, c)
    /\ conns' = [conns EXCEPT ![c].closed = TRUE]
    /\ ret' = [Ret0 EXCEPT !.op = "ConnClose", !.c = c]
    /\ calls' = <<Call("close", conns[c].s, 0, <<>>, {}, NoAddr, 0)>>
    /\ UNCHANGED <<variant, lim, hashes, pend, rf, tsock, faults>>

\* ------------------------------------------------------------------- Hash
\* sysSocket.Accept: the accepted socket or 0, and the error.
Accept(t, lfd) ==
    LET fd == LowestFree(t)
        acc(r) == Call("accept", lfd, 0, <<>>, {}, NoAddr, r)
    IN  {[fd |-> 0, err |-> "ECONNABORTED", t |-> t, calls |-> <<acc(ErrN)>>]}
        \cup
        (IF fd = 0
         THEN {[fd |-> 0, err |-> "EMFILE", t |-> t, calls |-> <<acc(ErrN)>>]}
         ELSE {[fd |-> fd, err |-> "nil", t |-> [t EXCEPT ![fd] = Slot("op")],
                calls |-> <<acc(fd)>>]})

\* newPipe: unix.Pipe takes the two lowest free descriptors.
newPipe(t) ==
    LET r == LowestFree(t)
        t1 == IF r = 0 THEN t ELSE [t EXCEPT ![r] = Slot("pr")]
        w == LowestFree(t1)
        pc(x) == Call("pipe", 0, 0, <<>>, {}, NoAddr, x)
    IN  {[pipes |-> <<0, 0>>, err |-> "ENFILE", t |-> t, calls |-> <<pc(ErrN)>>]}
        \cup
        (IF r = 0 \/ w = 0
         THEN {[pipes |-> <<0, 0>>, err |-> "EMFILE", t |-> t,
                calls |-> <<pc(ErrN)>>]}
         ELSE {[pipes |-> <<r, w>>, err |-> "nil",
                t |-> [t1 EXCEPT ![w] = [Slot("pw") EXCEPT !.peer = r]],
                calls |-> <<pc(0)>>]})

\* &ihash{...}: the session conn.Hash returns.  pipes is <<read end, write
\* end>> (pipes[0], pipes[1] in the code), <<0, 0>> in the sendto build, which
\* has no pipes.  c, closed, hist, pure, sub, sums and reset are bookkeeping
\* of the model: the conn the session came from, whether Close was called,
\* the bytes of the Writes that returned no error, whether only such Writes
\* were made so far, the bytes submitted, the Sum calls made, and where the
\* session stood at its last Reset.
\* The bookkeeping of a session on which Reset was not called.
NoReset == [done |-> FALSE, at |-> 0, sums |-> 0]

\* A session made on the conn's own socket instead of the accepted one.
NewHashShared(c, s, pipes) ==
    [s |-> conns[c].s, pipes |-> pipes, buf |-> Rep(0, BufLen),
     addr |-> conns[c].addr, size |-> conns[c].size,
     blockSize |-> conns[c].blockSize, c |-> c, closed |-> FALSE,
     hist |-> <<>>, pure |-> TRUE, sub |-> 0, sums |-> 0, reset |-> NoReset]

\* &ihash{...}: the session conn.Hash returns.
NewHash(c, s, pipes) ==
    [s |-> s, pipes |-> pipes, buf |-> Rep(0, BufLen), addr |-> conns[c].addr,
     size |-> conns[c].size, blockSize |-> conns[c].blockSize,
     c |-> c, closed |-> FALSE, hist |-> <<>>, pure |-> TRUE, sub |-> 0,
     sums |-> 0, reset |-> NoReset]

\* conn.Hash up to and including Accept.  The sendto build is done after it.
HashAccept(c) ==
    /\ Idle
    /\ ~conns[c].closed
    /\ Len(hashes) + Cardinality(pend) < lim.hashes
    /\ \E o \in Accept(fdt, conns[c].s) :
          /\ MayHappen(o)
          /\ Faults(o)
          /\ fdt' = o.t
          /\ calls' = o.calls
          /\ IF o.err # "nil"
             THEN /\ ret' = [Ret0 EXCEPT !.op = "Hash", !.c = c, !.err = o.err]
                  /\ UNCHANGED <<hashes, pend>>
             ELSE IF variant = "sendto"
             THEN /\ hashes' = Append(hashes, NewHash(c, o.fd, <<0, 0>>))
                  /\ ret' = [Ret0 EXCEPT !.op = "Hash", !.c = c,
                                         !.h = Len(hashes) + 1]
                  /\ pend' = pend
             ELSE /\ pend' = pend \cup {[c |-> c, s |-> o.fd]}
                  /\ ret' = [Ret0 EXCEPT !.op = "HashAccept", !.c = c]
                  /\ hashes' = hashes
    /\ UNCHANGED <<variant, lim, conns, rf, tsock>>

\* conn.Hash of the pipe build from newPipe on.
HashPipe(fr) ==
    /\ Idle
    /\ fr \in pend
    /\ pend' = pend \ {fr}
    /\ \E o \in newPipe(fdt) :
          /\ MayHappen(o)
          /\ Faults(o)
          /\ fdt' = o.t
          /\ calls' = o.calls
          /\ IF o.err # "nil"
             THEN /\ ret' = [Ret0 EXCEPT !.op = "Hash", !.c = fr.c, !.err = o.err]
                  /\ hashes' = hashes
             ELSE /\ hashes' = Append(hashes, NewHash(fr.c, fr.s, o.pipes))
                  /\ ret' = [Ret0 EXCEPT !.op = "Hash", !.c = fr.c,
                                         !.h = Len(hashes) + 1]
    /\ UNCHANGED <<variant, lim, conns, rf, tsock>>

\* Bytes submitted to, and Sum calls made on, all sessions so far.
Submitted == SumOver([h \in 1..Len(hashes) |-> hashes[h].sub], 1..Len(hashes))
SumsMade == SumOver([h \in 1..Len(hashes) |-> hashes[h].sums], 1..Len(hashes))

\* The byte slices callers submit: every byte submitted over a run is
\* different from all earlier ones (the k-th byte has the value k), so that a
\* lost, repeated or reordered byte shows in what the engine accumulated.
NextBytes(n) == [i \in 1..n |-> Submitted + i]

\* The sessions a caller may still use: Close has not been called on them.
Live == {h \in 1..Len(hashes) : ~hashes[h].closed}

\* ------------------------------------------------------------ ihash.Close
HashCloseFds(t, h) == [t EXCEPT ![hashes[h].s] = FreeSlot]

Close(h) ==
    /\ Idle
    /\ h \in Live
    /\ fdt' = HashCloseFds(fdt, h)
    /\ hashes' = [hashes EXCEPT ![h].closed = TRUE]
    /\ ret' = [Ret0 EXCEPT !.op = "Close", !.h = h]
    /\ calls' = <<Call("close", hashes[h].s, 0, <<>>, {}, NoAddr, 0)>>
    /\ UNCHANGED <<variant, lim, conns, pend, rf, tsock, faults>>

\* ------------------------------------------------------------ ihash.Write
MSG_MORE == "MSG_MORE"
SPLICE_F_MOVE == "SPLICE_F_MOVE"
SPLICE_F_MORE == "SPLICE_F_MORE"

\* Write of the sendto build: one Sendto of b with MSG_MORE to h.addr; the
\* count returned is len(b) whatever Sendto says.
WriteSendto(t, hr, b) ==
    LET st(r) == Call("sendto", hr.s, 0, b, {MSG_MORE}, hr.addr, r)
    IN  {[n |-> Len(b), err |-> "nil", panic |-> FALSE,
          t |-> [t EXCEPT ![hr.s] = EngSend(t[hr.s], b, TRUE)],
          calls |-> <<st(0)>>],
         [n |-> Len(b), err |-> "EIO", panic |-> FALSE, t |-> t,
          calls |-> <<st(ErrN)>>]}

\* sysPipe.Vmsplice(b, 0) on the write end w: takes &b[0], so it faults on an
\* empty b; otherwise it fails, or moves the first n >= 1 bytes of b into the
\* pipe, as many as the kernel accepts (none while the pipe is full: the call
\* blocks).
Vmsplice(t, w, b) ==
    LET r == t[w].peer
        room == PipeCap - Len(t[r].data)
        vm(x) == Call("vmsplice", w, 0, b, {}, NoAddr, x)
    IN  IF b = <<>>
        THEN {[n |-> 0, err |-> "nil", panic |-> TRUE, t |-> t, calls |-> <<>>]}
        ELSE {[n |-> ErrN, err |-> "EBADF", panic |-> FALSE, t |-> t,
               calls |-> <<vm(ErrN)>>]}
             \cup
             {[n |-> n, err |-> "nil", panic |-> FALSE,
               t |-> [t EXCEPT ![r].data = @ \o Take(b, n)],
               calls |-> <<vm(n)>>] : n \in 1..Min(Len(b), room)}

\* sysPipe.Splice(out, size, flags) on the read end r: fails, or moves the
\* first m >= 1 of the bytes waiting in the pipe, at most size, into the
\* socket out; the send carries the more-data flag iff flags has
\* SPLICE_F_MORE.
Splice(t, r, out, size, flags) ==
    LET avail == Min(size, Len(t[r].data))
        sp(x) == Call("splice", r, out, Take(t[r].data, avail), flags, NoAddr, x)
    IN  {[n |-> ErrN, err |-> "EINVAL", t |-> t, calls |-> <<sp(ErrN)>>]}
        \cup
        {[n |-> m, err |-> "nil",
          t |-> [t EXCEPT ![r].data = Drop(@, m),
                          ![out] = EngSend(@, Take(t[r].data, m),
                                           SPLICE_F_MORE \in flags)],
          calls |-> <<sp(m)>>] : m \in 1..avail}

\* Write of the pipe build: Vmsplice of b into pipes[1], then one Splice of
\* the n bytes it took from pipes[0] into the session socket; the count
\* returned is Vmsplice's, the error is Splice's.
WritePipe(t, hr, b) ==
    LET vs == Vmsplice(t, hr.pipes[2], b)
    IN  {v \in vs : v.err # "nil" \/ v.panic}
        \cup
        UNION {
          {[n |-> v.n, err |-> sp.err, panic |-> FALSE, t |-> sp.t,
            calls |-> v.calls \o sp.calls] :
             sp \in Splice(v.t, hr.pipes[1], hr.s, v.n,
                           {SPLICE_F_MOVE, SPLICE_F_MORE})} :
          v \in {x \in vs : x.err = "nil" /\ ~x.panic}}

\* What one call of h.Write(b) can do: the count, the error, the descriptor
\* table afterwards and the system calls issued.
WriteOutcomes(t, hr, b) ==
    IF variant = "sendto" THEN WriteSendto(t, hr, b) ELSE WritePipe(t, hr, b)

\* The session's bookkeeping after a Write of b; the Write counts as
\* successful when it returned no error and the count len(b).
Wrote(hr, b, o) ==
    LET good == o.err = "nil" /\ ~o.panic /\ o.n = Len(b)
    IN  [hr EXCEPT !.hist = IF good THEN @ \o b ELSE @,
                   !.pure = @ /\ good,
                   !.sub = @ + Len(b)]

Write(h, b) ==
    /\ Idle
    /\ h \in Live
    /\ Submitted + Len(b) <= lim.data
    /\ \E o \in WriteOutcomes(fdt, hashes[h], b) :
          /\ MayHappen(o)
          /\ Faults(o)
          /\ fdt' = o.t
          /\ calls' = o.calls
          /\ hashes' = [hashes EXCEPT ![h] = Wrote(@, b, o)]
          /\ ret' = [Ret0 EXCEPT !.op = "Write", !.h = h, !.b = b, !.n = o.n,
                                 !.err = o.err, !.panic = o.panic]
    /\ UNCHANGED <<variant, lim, conns, pend, rf, tsock>>

\* -------------------------------------------------------------- ihash.Sum
\* copy(dst, src) of Go: dst with its first min(len) bytes overwritten.
Copy(dst, src) == Take(src, Min(Len(dst), Len(src))) \o Drop(dst, Min(Len(dst), Len(src)))

\* h.s.Read(p).  A session made on the testSocket (whose FD() is 0) copies
\* the socket's read field and never fails; a kernel socket fails, or yields
\* the digest of what it accumulated and starts afresh.
SockRead(t, ts, s, p) ==
    IF s = 0
    THEN {[n |-> Min(Len(p), Len(ts.read)), err |-> "nil", p |-> Copy(p, ts.read),
           t |-> t,
           calls |-> <<Call("read", s, 0, ts.read, {}, NoAddr,
                            Min(Len(p), Len(ts.read)))>>]}
    ELSE {[n |-> ErrN, err |-> "EIO", p |-> p, t |-> t,
           calls |-> <<Call("read", s, 0, <<>>, {}, NoAddr, ErrN)>>],
          [n |-> Min(Len(p), Len(EngOut(t[s]))), err |-> "nil",
           p |-> Copy(p, EngOut(t[s])),
           t |-> [t EXCEPT ![s] = EngRead(@)],
           calls |-> <<Call("read", s, 0, EngOut(t[s]), {}, NoAddr,
                            Min(Len(p), Len(EngOut(t[s]))))>>]}

\* append(b, h.buf...): the whole scratch buffer, not its first n bytes.
SumValueWholeBuf(b, buf, n) == b \o buf

\* append(b, h.buf[:n]...)
SumValue(b, buf, n) == b \o Take(buf, n)

\* Prefixes callers hand to Sum.
Prefixes == {<<>>, <<0, 0>>}

\* A Sum that hands the prefix back when the read fails.
SumReturnPrefix(h, b, o) ==
    [Ret0 EXCEPT !.op = "Sum", !.h = h, !.b = b, !.err = o.err,
                 !.n = IF o.err # "nil" THEN 0 ELSE o.n,
                 !.val = IF o.err # "nil" THEN b ELSE SumValue(b, o.p, o.n)]

\* What Sum gives its caller after the read came back as o: a panic if the
\* read failed, append(b, h.buf[:n]...) otherwise.
SumReturn(h, b, o) ==
    IF o.err # "nil"
    THEN [Ret0 EXCEPT !.op = "Sum", !.h = h, !.b = b, !.err = o.err,
                      !.panic = TRUE]
    ELSE [Ret0 EXCEPT !.op = "Sum", !.h = h, !.b = b, !.n = o.n,
                      !.val = SumValue(b, o.p, o.n)]

Sum(h, b) ==
    /\ Idle
    /\ h \in Live
    /\ SumsMade < lim.sums
    /\ \E o \in SockRead(fdt, tsock, hashes[h].s, hashes[h].buf) :
          /\ MayHappen(o)
          /\ Faults(o)
          /\ fdt' = o.t
          /\ calls' = o.calls
          /\ hashes' = [hashes EXCEPT ![h].buf = o.p, ![h].sums = @ + 1]
          /\ ret' = SumReturn(h, b, o)
    /\ UNCHANGED <<variant, lim, conns, pend, rf, tsock>>

\* ------------------------------------------------------------ ihash.Reset
\* A Reset that makes the engine start a new digest.
ResetRestart(t, h) ==
    [t EXCEPT ![hashes[h].s].data = <<>>, ![hashes[h].s].more = FALSE]

\* func (h *ihash) Reset() {}: the descriptor table after it.
ResetEffect(t, h) == t

\* The call changes nothing of the program; where the specification keeps
\* track of Resets (lim.marks), the session's bookkeeping notes where the
\* session stood.
Reset(h) ==
    /\ Idle
    /\ h \in Live
    /\ fdt' = ResetEffect(fdt, h)
    /\ hashes' = [hashes EXCEPT ![h].reset =
                      IF lim.marks
                      THEN [done |-> TRUE, at |-> Len(hashes[h].hist),
                            sums |-> hashes[h].sums]
                      ELSE @]
    /\ ret' = [Ret0 EXCEPT !.op = "Reset", !.h = h]
    /\ calls' = <<>>
    /\ UNCHANGED <<variant, lim, conns, pend, rf, tsock, faults>>

\* --------------------------------------------------------- ihash.ReadFrom
\* The sources callers hand to ReadFrom.  kind: "file" (*os.File), "limfile"
\* (*io.LimitedReader around an *os.File), "reader" (any other io.Reader),
\* "limreader" (*io.LimitedReader around one).  len: the bytes in the file or
\* reader; pos: the file's read position; N: the LimitedReader's N;
\* seekable: FALSE for an *os.File that is a pipe or a terminal, where Seek
\* fails.
Src(k, l, p, n, sk) ==
    [kind |-> k, len |-> l, pos |-> p, N |-> n, seekable |-> sk]

Sources ==
    {Src("file", l, p, 0, TRUE) : l \in 0..MaxFile, p \in 0..MaxFile}
    \cup {Src("file", l, 0, 0, FALSE) : l \in 0..MaxFile}
    \cup {Src("limfile", l, p, n, TRUE) :
             l \in 0..MaxFile, p \in 0..MaxFile, n \in 0..(MaxFile + 1)}
    \cup {Src("reader", l, 0, 0, TRUE) : l \in 0..MaxFile}
    \cup {Src("limreader", l, 0, n, TRUE) :
             l \in 0..MaxFile, n \in 0..(MaxFile + 1)}

WellFormed(src) == src.pos <= src.len

FileBacked(src) == src.kind \in {"file", "limfile"}
Limited(src) == src.kind \in {"limfile", "limreader"}

\* The bytes a source with the given content yields when read to its end.
Stream(src, content) ==
    IF Limited(src) THEN Take(Drop(content, src.pos), Min(src.N, src.len - src.pos))
    ELSE Drop(content, src.pos)

\* Whether h.sendfile takes the call (handled), and the system calls that
\* failed for that outcome (nf, for a reason the source does not explain).
\* It declines when Seek, Stat or SyscallConn fails: Seek always fails on a
\* file that is not seekable.
sendfileSetup(src) ==
    IF ~src.seekable THEN {[handled |-> FALSE, nf |-> 0]}
    ELSE {[handled |-> TRUE, nf |-> 0], [handled |-> FALSE, nf |-> 1]}

\* The same for h.splice, which declines when Seek, Stat or Mmap fails: Mmap
\* of an empty file fails with EINVAL.
spliceSetup(src) ==
    IF ~src.seekable \/ src.len = 0 THEN {[handled |-> FALSE, nf |-> 0]}
    ELSE {[handled |-> TRUE, nf |-> 0], [handled |-> FALSE, nf |-> 1]}

\* A ReadFrom that tries the mapping before sendfile.
PlansSpliceFirst(src) ==
    IF ~FileBacked(src)
    THEN {[path |-> "generic", nf |-> 0, tried |-> <<"generic">>]}
    ELSE UNION {
           IF b.handled
           THEN {[path |-> "splice", nf |-> b.nf, tried |-> <<"splice">>]}
           ELSE UNION {
                  IF a.handled
                  THEN {[path |-> "sendfile", nf |-> a.nf + b.nf,
                         tried |-> <<"splice", "sendfile">>]}
                  ELSE {[path |-> "generic", nf |-> a.nf + b.nf,
                         tried |-> <<"splice", "sendfile", "generic">>]} :
                  a \in sendfileSetup(src)} :
           b \in spliceSetup(src)}

\* ReadFrom and readFromLimitedReader: which strategy handles the call, the
\* strategies tried on the way to it, and the system calls that failed.  For
\* a file, sendfile first, then splice if sendfile declined, then the
\* buffered copy if both did; for any other reader the buffered copy.
Plans(src) ==
    IF ~FileBacked(src)
    THEN {[path |-> "generic", nf |-> 0, tried |-> <<"generic">>]}
    ELSE UNION {
           IF a.handled
           THEN {[path |-> "sendfile", nf |-> a.nf, tried |-> <<"sendfile">>]}
           ELSE UNION {
                  IF b.handled
                  THEN {[path |-> "splice", nf |-> a.nf + b.nf,
                         tried |-> <<"sendfile", "splice">>]}
                  ELSE {[path |-> "generic", nf |-> a.nf + b.nf,
                         tried |-> <<"sendfile", "splice", "generic">>]} :
                  b \in spliceSetup(src)} :
           a \in sendfileSetup(src)}

\* remain as sendfile and splice compute it: the cap, or size minus offset.
Remain(src) == IF Limited(src) THEN src.N ELSE src.len - src.pos

\* A splice that unmaps before its last return only.
MunmapsAtEnd(exit) == IF exit = "return" THEN 1 ELSE 0

\* defer syscall.Munmap(mmap): the Munmap calls made when h.splice, having
\* mapped the file, leaves by a return with no error ("return"), by the
\* return of a Write's error ("error") or by a panic ("panic").
Munmaps(exit) == 1

ReadFromBegin(h, src) ==
    /\ Idle
    /\ variant = "pipe"
    /\ h \in Live
    /\ WellFormed(src)
    /\ Submitted + src.len <= lim.data
    /\ \E pl \in Plans(src) :
        LET content == NextBytes(src.len)
            stream == Stream(src, content)
            fr == [RfIdle EXCEPT !.h = h, !.src = src, !.stream = stream,
                                 !.fpos = src.pos, !.e0 = fdt[hashes[h].s],
                                 !.tried = pl.tried, !.depth = 1]
            running == [Ret0 EXCEPT !.op = "ReadFrom:running", !.h = h]
        IN  /\ faults + pl.nf <= lim.faults
            /\ faults' = faults + pl.nf
            /\ hashes' = [hashes EXCEPT ![h].pure = FALSE, ![h].sub = @ + src.len]
            /\ calls' = <<>>
            /\ CASE pl.path = "sendfile" ->
                      /\ rf' = [fr EXCEPT !.pc = "sendfile", !.offset = src.pos,
                                          !.bytes = content,
                                          !.remain = Remain(src)]
                      /\ ret' = running
                 [] pl.path = "splice" ->
                      \* bytes := mmap[offset : offset+remain]
                      IF src.pos + Remain(src) > src.len
                      THEN /\ rf' = RfIdle
                           /\ ret' = [Ret0 EXCEPT !.op = "ReadFrom", !.h = h,
                                         !.b = stream, !.panic = TRUE,
                                         !.path = "splice",
                                         !.munmaps = Munmaps("panic"),
                                         !.e0 = fr.e0, !.fpos = src.pos,
                                         !.src = src, !.tried = pl.tried,
                                         !.depth = 1]
                      ELSE /\ rf' = [fr EXCEPT !.pc = "splice",
                                       !.bytes = SubSeq(content, src.pos + 1,
                                                        src.pos + Remain(src)),
                                       !.total = Remain(src),
                                       !.remain = Remain(src),
                                       !.end = Min(ChunkSize, Remain(src))]
                           /\ ret' = running
                 [] pl.path = "generic" ->
                      /\ rf' = [fr EXCEPT !.pc = "generic", !.rest = stream]
                      /\ ret' = running
    /\ UNCHANGED <<variant, lim, fdt, conns, pend, tsock>>

\* The bytes that reached a socket in the system calls cs: what a sendfile
\* or a splice reports as moved, and all of a Sendto that succeeded.
RECURSIVE Delivered(_)
Delivered(cs) ==
    IF cs = <<>> THEN 0
    ELSE LET c == Head(cs)
         IN  (IF c.op \in {"sendfile", "splice"} /\ c.res > 0 THEN c.res
              ELSE IF c.op = "sendto" /\ c.res = 0 THEN Len(c.p)
              ELSE 0) + Delivered(Tail(cs))

\* The strategies that have moved bytes once the running one issued cs.
Moved(fr, cs) ==
    IF Delivered(cs) > 0 THEN fr.movers \cup {fr.pc} ELSE fr.movers

\* What ReadFrom returns, and the frame is gone.
Return(path, n, err, panic, munmaps, fpos) ==
    /\ rf' = RfIdle
    /\ ret' = [Ret0 EXCEPT !.op = "ReadFrom", !.h = rf.h, !.b = rf.stream,
                           !.n = n, !.err = err, !.panic = panic, !.path = path,
                           !.munmaps = munmaps, !.e0 = rf.e0, !.fpos = fpos,
                           !.sent = rf.sent + Delivered(calls'),
                           !.src = rf.src, !.tried = rf.tried,
                           !.movers = Moved(rf, calls'), !.depth = rf.depth]

\* syscall.Sendfile(out, in, &offset, count): fails, or sends the next n
\* bytes of the file from offset on, n >= 1 unless none are left or asked
\* for, to the socket out.  The call has no more-data flag to give.  The
\* file's own read position is not moved: the offset is passed explicitly.
Sendfile(t, out, content, offset, count) ==
    LET avail == Min(count, Len(content) - offset)
        sf(x) == Call("sendfile", 0, out, <<>>, {}, NoAddr, x)
    IN  {[n |-> ErrN, err |-> "EINVAL", t |-> t, calls |-> <<sf(ErrN)>>]}
        \cup
        (IF avail <= 0
         THEN {[n |-> 0, err |-> "nil", t |-> t, calls |-> <<sf(0)>>]}
         ELSE {[n |-> n, err |-> "nil",
                t |-> [t EXCEPT ![out] =
                          EngSend(@, SubSeq(content, offset + 1, offset + n), FALSE)],
                calls |-> <<sf(n)>>] : n \in 1..avail})

\* One turn of sendfile's loop.
SendfileStep ==
    /\ rf.pc = "sendfile"
    /\ \E o \in Sendfile(fdt, hashes[rf.h].s, rf.bytes, rf.offset, rf.remain) :
          /\ MayHappen(o)
          /\ Faults(o)
          /\ fdt' = o.t
          /\ calls' = o.calls
          /\ IF o.err # "nil" \/ o.n >= rf.remain
             THEN Return("sendfile", rf.written + o.n, o.err, FALSE, 0, rf.fpos)
             ELSE /\ rf' = [rf EXCEPT !.written = @ + o.n, !.remain = @ - o.n,
                                      !.offset = @ + o.n,
                                      !.sent = @ + Delivered(o.calls),
                                      !.movers = Moved(rf, o.calls),
                                      !.turn = 1 - @]
                  /\ ret' = ret
    /\ UNCHANGED <<variant, lim, conns, hashes, pend, tsock>>

\* One turn of splice's loop: h.Write(bytes[start:end]) and what follows it.
SpliceStep ==
    /\ rf.pc = "splice"
    /\ \E o \in WriteOutcomes(fdt, hashes[rf.h], SubSeq(rf.bytes, rf.start + 1, rf.end)) :
          /\ MayHappen(o)
          /\ Faults(o)
          /\ fdt' = o.t
          /\ calls' = o.calls
          /\ IF o.panic
             THEN Return("splice", 0, "nil", TRUE, Munmaps("panic"), rf.fpos)
             ELSE IF o.err # "nil"
             THEN Return("splice", rf.start + o.n, o.err, FALSE,
                         Munmaps("error"), rf.fpos)
             ELSE IF rf.start + o.n >= rf.total
             THEN Return("splice", rf.remain, "nil", FALSE, Munmaps("return"),
                         rf.fpos)
             ELSE /\ rf' = [rf EXCEPT !.start = @ + o.n,
                                      !.end = Min(@ + o.n, rf.total),
                                      !.sent = @ + Delivered(o.calls),
                                      !.movers = Moved(rf, o.calls),
                                      !.turn = 1 - @]
                  /\ ret' = ret
    /\ UNCHANGED <<variant, lim, conns, hashes, pend, tsock>>

\* io.Copy(w, r) without the wrapper: the sink is the session itself.
CopySinkBare(h) == {"Write", "ReadFrom", "Sum", "Reset", "Close"}

\* writerOnly{w}: the methods of the sink genericReadFrom hands to io.Copy.
\* The struct embeds io.Writer, so Write is all the sink has.
CopySink(h) == {"Write"}

\* One turn of io.Copy's loop in genericReadFrom: read up to CopyBuf bytes,
\* Write them, stop on an error or a short write, or at the source's end.
GenericStep ==
    /\ rf.pc = "generic"
    /\ IF "ReadFrom" \in CopySink(rf.h)
       THEN \* io.Copy hands the source to dst.ReadFrom, which ends here again
            /\ rf.depth < MaxDepth
            /\ rf' = [rf EXCEPT !.depth = @ + 1]
            /\ ret' = ret
            /\ calls' = <<>>
            /\ UNCHANGED <<fdt, faults>>
       ELSE IF rf.rest = <<>>
       THEN /\ calls' = <<>>
            /\ Return("generic", rf.written, "nil", FALSE, 0, rf.fpos)
            /\ UNCHANGED <<fdt, faults>>
       ELSE LET nr == Min(Len(rf.rest), CopyBuf)
                fpos == IF FileBacked(rf.src) THEN rf.fpos + nr ELSE rf.fpos
            IN  \E o \in WriteOutcomes(fdt, hashes[rf.h], Take(rf.rest, nr)) :
                  LET bad == o.n < 0 \/ nr < o.n
                      nw == IF bad THEN 0 ELSE o.n
                      ew == IF bad /\ o.err = "nil" THEN "errInvalidWrite" ELSE o.err
                  IN  /\ MayHappen(o)
                      /\ Faults(o)
                      /\ fdt' = o.t
                      /\ calls' = o.calls
                      /\ IF o.panic
                         THEN Return("generic", 0, "nil", TRUE, 0, fpos)
                         ELSE IF ew # "nil"
                         THEN Return("generic", rf.written + nw, ew, FALSE, 0, fpos)
                         ELSE IF nr # nw
                         THEN Return("generic", rf.written + nw, "ErrShortWrite",
                                     FALSE, 0, fpos)
                         ELSE /\ rf' = [rf EXCEPT !.written = @ + nw,
                                                  !.rest = Drop(@, nr),
                                                  !.fpos = fpos,
                                                  !.sent = @ + Delivered(o.calls),
                                                  !.movers = Moved(rf, o.calls),
                                                  !.turn = 1 - @]
                              /\ ret' = ret
    /\ UNCHANGED <<variant, lim, conns, hashes, pend, tsock>>

\* ------------------------------------------- the build for other platforms
errUnimplemented == "errUnimplemented"

\* A Hash that reports success and returns no session.
othersHashNil(size, blockSize) == [h |-> 0, err |-> "nil"]

\* dial, conn.Hash and conn.Close of src/alg_others.go: what they return.
othersDial(typ, name) == [c |-> 0, err |-> errUnimplemented]
othersHash(size, blockSize) == [h |-> 0, err |-> errUnimplemented]
othersClose == errUnimplemented

\* The arguments TestOthersConnUnimplemented and other callers hand in.
OthersTypes == {""} \cup DialTypes
OthersNames == {""} \cup DialNames
OthersSizes == {0, 16, 20, 32}
OthersBlockSizes == {0, 64}

\* A call on the other platforms touches nothing; the run counts it.
OthersCall(r) ==
    /\ variant = "others"
    /\ faults < lim.faults
    /\ faults' = faults + 1
    /\ ret' = r
    /\ calls' = <<>>
    /\ UNCHANGED <<variant, lim, fdt, conns, hashes, pend, rf, tsock>>

OthersDial(typ, name) ==
    OthersCall([Ret0 EXCEPT !.op = "dial", !.typ = typ, !.name = name,
                            !.c = othersDial(typ, name).c,
                            !.err = othersDial(typ, name).err])

OthersHash(size, blockSize) ==
    OthersCall([Ret0 EXCEPT !.op = "Hash", !.size = size,
                            !.blockSize = blockSize,
                            !.h = othersHash(size, blockSize).h,
                            !.err = othersHash(size, blockSize).err])

OthersClose ==
    OthersCall([Ret0 EXCEPT !.op = "ConnClose", !.err = othersClose])

\* c := &conn{}: the conn of the other platforms has no field.
InitOthers ==
    /\ variant = "others"
    /\ fdt = [fd \in FDs |-> FreeSlot]
    /\ conns = <<>>
    /\ hashes = <<>>
    /\ pend = {}
    /\ rf = RfIdle
    /\ ret = Ret0
    /\ calls = <<>>
    /\ tsock = [read |-> <<>>]
    /\ faults = 0
    /\ lim = [conns |-> 0, hashes |-> 0, data |-> 0, sums |-> 0,
              faults |-> OthersCalls,
              marks |-> FALSE]

NextOthers ==
    \/ \E typ \in OthersTypes, name \in OthersNames : OthersDial(typ, name)
    \/ \E size \in OthersSizes, blockSize \in OthersBlockSizes :
          OthersHash(size, blockSize)
    \/ OthersClose

SpecOthers == InitOthers /\ [][NextOthers]_vars

\* ---------------------------------------------------------- specification
Next ==
    \/ \E name \in {nameSHA1, "sha512"} : Dial(typeHash, name)
    \/ \E c \in 1..Len(conns) : ConnClose(c)
    \/ \E c \in 1..Len(conns) : HashAccept(c)
    \/ \E fr \in pend : HashPipe(fr)
    \/ \E h \in 1..Len(hashes) : Close(h)
    \/ \E h \in 1..Len(hashes), n \in 0..MaxWrite : Write(h, NextBytes(n))
    \/ \E h \in 1..Len(hashes), b \in Prefixes : Sum(h, b)
    \/ \E h \in 1..Len(hashes) : Reset(h)
    \/ \E h \in 1..Len(hashes), src \in Sources : ReadFromBegin(h, src)
    \/ SendfileStep
    \/ SpliceStep
    \/ GenericStep

Spec == Init /\ [][Next]_vars

\* Dial with every type and name, and the life of what it returns.
InitDial ==
    InitWith([conns |-> DialConns, hashes |-> 1, data |-> 0, sums |-> 0,
              faults |-> DialFaults,
              marks |-> FALSE])

NextDial ==
    \/ \E typ \in DialTypes, name \in DialNames : Dial(typ, name)
    \/ \E c \in 1..Len(conns) : ConnClose(c)
    \/ \E c \in 1..Len(conns) : HashAccept(c)
    \/ \E fr \in pend : HashPipe(fr)
    \/ \E h \in 1..Len(hashes) : Close(h)

SpecDial == InitDial /\ [][NextDial]_vars

\* Several sessions of one conn, their Hash calls interleaved.
InitShare ==
    InitWith([conns |-> 1, hashes |-> ShareHashes, data |-> ShareData,
              sums |-> ShareSums, faults |-> ShareFaults,
              marks |-> FALSE])

ShareSources ==
    {Src("file", 1, 0, 0, TRUE), Src("reader", 1, 0, 0, TRUE)}

NextShare ==
    \/ Dial(typeHash, nameSHA1)
    \/ \E c \in 1..Len(conns) : ConnClose(c)
    \/ \E c \in 1..Len(conns) : HashAccept(c)
    \/ \E fr \in pend : HashPipe(fr)
    \/ \E h \in 1..Len(hashes) : Close(h)
    \/ \E h \in 1..Len(hashes) : Write(h, NextBytes(1))
    \/ \E h \in 1..Len(hashes) : Sum(h, <<>>)
    \/ \E h \in 1..Len(hashes), src \in ShareSources : ReadFromBegin(h, src)
    \/ SendfileStep
    \/ SpliceStep
    \/ GenericStep

SpecShare == InitShare /\ [][NextShare]_vars

\* A conn closed while its sessions are in use.
InitClose ==
    InitWith([conns |-> 1, hashes |-> ShareHashes, data |-> CloseData,
              sums |-> CloseSums, faults |-> CloseFaults,
              marks |-> FALSE])

NextClose ==
    \/ Dial(typeHash, nameSHA1)
    \/ \E c \in 1..Len(conns) : ConnClose(c)
    \/ \E c \in 1..Len(conns) : HashAccept(c)
    \/ \E fr \in pend : HashPipe(fr)
    \/ \E h \in 1..Len(hashes) : Close(h)
    \/ \E h \in 1..Len(hashes) : Write(h, NextBytes(1))
    \/ \E h \in 1..Len(hashes) : Sum(h, <<>>)

SpecClose == InitClose /\ [][NextClose]_vars

\* The life of a session: Write, Sum, Reset, Close.
InitSession ==
    InitWith([conns |-> 1, hashes |-> SessHashes, data |-> SessData,
              sums |-> SessSums, faults |-> SessFaults,
              marks |-> FALSE])

NextSession ==
    \/ Dial(typeHash, nameSHA1)
    \/ \E c \in 1..Len(conns) : HashAccept(c)
    \/ \E fr \in pend : HashPipe(fr)
    \/ \E h \in 1..Len(hashes) : Close(h)
    \/ \E h \in 1..Len(hashes), n \in 1..2 : Write(h, NextBytes(n))
    \/ \E h \in 1..Len(hashes), b \in Prefixes : Sum(h, b)
    \/ \E h \in 1..Len(hashes) : Reset(h)

SpecSession == InitSession /\ [][NextSession]_vars

\* A session used across Resets, with the place of each Reset kept.
InitReset ==
    InitWith([conns |-> 1, hashes |-> 1, data |-> ResetData,
              sums |-> ResetSums, faults |-> 0,
              marks |-> TRUE])

NextReset ==
    \/ Dial(typeHash, nameSHA1)
    \/ \E c \in 1..Len(conns) : HashAccept(c)
    \/ \E fr \in pend : HashPipe(fr)
    \/ \E h \in 1..Len(hashes), n \in 1..2 : Write(h, NextBytes(n))
    \/ \E h \in 1..Len(hashes) : Sum(h, <<>>)
    \/ \E h \in 1..Len(hashes) : Reset(h)

SpecReset == InitReset /\ [][NextReset]_vars

\* ReadFrom from every source, on one session of the pipe build.
InitReadFrom ==
    InitWith([conns |-> 1, hashes |-> 1, data |-> RfData, sums |-> 0,
              faults |-> RfFaults,
              marks |-> FALSE])

NextReadFrom ==
    \/ Dial(typeHash, nameSHA1)
    \/ \E c \in 1..Len(conns) : HashAccept(c)
    \/ \E fr \in pend : HashPipe(fr)
    \/ \E h \in 1..Len(hashes), src \in Sources : ReadFromBegin(h, src)
    \/ SendfileStep
    \/ SpliceStep
    \/ GenericStep

SpecReadFrom == InitReadFrom /\ [][NextReadFrom]_vars

\* The same, with the thread in ReadFrom running on: a loop that can make
\* its next turn makes it.
SpecReadFromFair ==
    /\ SpecReadFrom
    /\ WF_vars(SendfileStep)
    /\ WF_vars(SpliceStep)
    /\ WF_vars(GenericStep)

\* TestLinuxConnSum: a session made by testLinuxHash on the testSocket, whose
\* read field the test sets.  The pipe build's Hash has made its pipe.
ReadLens == {0, 1, BufLen - 1, BufLen, BufLen + 1}
ReadResults == {[i \in 1..n |-> (i * k) % 256] : n \in ReadLens, k \in {1, 3}}

TestConn ==
    [s |-> 0, addr |-> [Type |-> typeHash, Name |-> nameSHA1], size |-> 0,
     blockSize |-> 0, closed |-> FALSE]

InitSum ==
    /\ variant \in {"sendto", "pipe"}
    /\ fdt = IF variant = "pipe"
             THEN [fd \in FDs |->
                     IF fd = 3 THEN Slot("pr")
                     ELSE IF fd = 4 THEN [Slot("pw") EXCEPT !.peer = 3]
                     ELSE FreeSlot]
             ELSE [fd \in FDs |-> FreeSlot]
    /\ conns = <<TestConn>>
    /\ hashes = <<[s |-> 0,
                   pipes |-> IF variant = "pipe" THEN <<3, 4>> ELSE <<0, 0>>,
                   buf |-> Rep(0, BufLen), addr |-> TestConn.addr, size |-> 0,
                   blockSize |-> 0, c |-> 1, closed |-> FALSE, hist |-> <<>>,
                   pure |-> TRUE, sub |-> 0, sums |-> 0,
                   reset |-> NoReset]>>
    /\ pend = {}
    /\ rf = RfIdle
    /\ ret = Ret0
    /\ calls = <<>>
    /\ tsock \in {[read |-> r] : r \in ReadResults}
    /\ faults = 0
    /\ lim = [conns |-> 1, hashes |-> 1, data |-> 0, sums |-> SumCalls,
              faults |-> 0,
              marks |-> FALSE]

\* s.read = ...: the test sets what the socket will yield.
TestSetRead(r) ==
    /\ Idle
    /\ tsock' = [read |-> r]
    /\ ret' = [Ret0 EXCEPT !.op = "SetRead"]
    /\ calls' = <<>>
    /\ UNCHANGED <<variant, lim, fdt, conns, hashes, pend, rf, faults>>

NextSum ==
    \/ \E r \in ReadResults : TestSetRead(r)
    \/ \E h \in 1..Len(hashes), b \in Prefixes : Sum(h, b)

SpecSum == InitSum /\ [][NextSum]_vars

\* ----------------------------------------------------------------- claims
\* The bytes waiting in the session's pipe (none in the sendto build).
PipeOf(h) ==
    IF hashes[h].pipes[1] = 0 THEN <<>> ELSE fdt[hashes[h].pipes[1]].data

\* What the engine holds for the session: the bytes accumulated and whether
\* it is still accumulating.
Engine(h) == [data |-> fdt[hashes[h].s].data, more |-> fdt[hashes[h].s].more]

IsSuffix(x, s) ==
    Len(x) <= Len(s) /\ SubSeq(s, Len(s) - Len(x) + 1, Len(s)) = x

WriteReturned == ret.op = "Write" /\ ~ret.panic
WriteOK == WriteReturned /\ ret.err = "nil"

\* C1: a Write of a non-empty b that returns no error returns the count
\* len(b), whatever the primitives transferred.
C1_WriteCountIsLen ==
    (WriteOK /\ ret.b # <<>>) => ret.n = Len(ret.b)

\* C2: when a Write returns successfully, the bytes it accepted have left the
\* pipe and are the last bytes the session socket received: the pipe is empty
\* between calls.
C2_WriteDrainsPipe ==
    WriteOK =>
        /\ PipeOf(ret.h) = <<>>
        /\ ret.n >= 0
        /\ IsSuffix(Take(ret.b, ret.n), Engine(ret.h).data)

\* C3: the first Sum(nil) of a session on which only successful Writes were
\* made returns the digest of the concatenation of what they wrote.
C3_SumIsDigestOfWrites ==
    (/\ ret.op = "Sum"
     /\ ~ret.panic
     /\ ret.b = <<>>
     /\ hashes[ret.h].pure
     /\ hashes[ret.h].sums = 1)
    => ret.val = Digest(hashes[ret.h].hist)

\* C4: every call by which a Write moves data into the session socket has
\* the more-data flag, carries exactly the caller's bytes and goes to the
\* session's own socket (and, for Sendto, address).
C4_WriteCallsMoreOwnExact ==
    ret.op = "Write" =>
        \A i \in 1..Len(calls) :
            /\ calls[i].op = "sendto" =>
                  /\ calls[i].flags = {MSG_MORE}
                  /\ calls[i].p = ret.b
                  /\ calls[i].fd = hashes[ret.h].s
                  /\ calls[i].to = hashes[ret.h].addr
            /\ calls[i].op = "splice" =>
                  /\ SPLICE_F_MORE \in calls[i].flags
                  /\ calls[i].p = ret.b
                  /\ calls[i].fd = hashes[ret.h].pipes[1]
                  /\ calls[i].out = hashes[ret.h].s

\* What the session socket holds after the bytes of stream went through
\* Write, from the state e0.
AfterWrites(e0, stream) ==
    IF stream = <<>> THEN [data |-> e0.data, more |-> e0.more]
    ELSE [data |-> EngSend(e0, stream, TRUE).data, more |-> TRUE]

\* C5: whichever strategy a ReadFrom that returned no error used, the engine
\* is in the state the same bytes reach it in through Write: all of them
\* accumulated, none finalized.
C5_StrategiesAgree ==
    (ret.op = "ReadFrom" /\ ~ret.panic /\ ret.err = "nil")
    => Engine(ret.h) = AfterWrites(ret.e0, ret.b)

\* C6: a Sum that returns made one read, on the session's socket, into the
\* scratch buffer, and returns the prefix followed by exactly the n bytes the
\* read returned, n being the length of what the socket had to give, 128 at
\* most.
C6_SumAppendsRead ==
    (ret.op = "Sum" /\ ~ret.panic) =>
        /\ Len(calls) = 1
        /\ calls[1].op = "read"
        /\ calls[1].fd = hashes[ret.h].s
        /\ calls[1].res = Min(BufLen, Len(calls[1].p))
        /\ ret.n = calls[1].res
        /\ Take(hashes[ret.h].buf, ret.n) = Take(calls[1].p, ret.n)
        /\ ret.val = ret.b \o Take(calls[1].p, ret.n)

\* A Sum with a prefix after a Sum that filled the scratch buffer: this one
\* read fewer bytes, at least one, and returned.
C6_Witness ==
    /\ ret.op = "Sum"
    /\ ~ret.panic
    /\ ret.b # <<>>
    /\ ret.n \in 1..(BufLen - 1)
    /\ hashes[ret.h].sums >= 2
    /\ hashes[ret.h].buf[BufLen] # 0

\* C7: after Close on a session, its socket and both its pipe descriptors
\* are closed.
C7_CloseReleasesAll ==
    ret.op = "Close" =>
        /\ IsFree(fdt, hashes[ret.h].s)
        /\ \A i \in 1..2 :
              hashes[ret.h].pipes[i] # 0 => IsFree(fdt, hashes[ret.h].pipes[i])

\* The descriptors a session owns.
Fds(h) == {hashes[h].s} \cup ({hashes[h].pipes[1], hashes[h].pipes[2]} \ {0})

\* All that belongs to a session: its record (scratch buffer included), what
\* its socket accumulated, and its pipe.
View(h) ==
    <<hashes[h], fdt[hashes[h].s],
      IF hashes[h].pipes[1] = 0 THEN <<>>
      ELSE <<fdt[hashes[h].pipes[1]], fdt[hashes[h].pipes[2]]>> >>

\* The sessions of one conn, and the sockets accepted for sessions still
\* being made, own descriptors no other has, all of them open.
C8_Disjoint ==
    /\ \A h1, h2 \in Live :
          (h1 # h2 /\ hashes[h1].c = hashes[h2].c) => Fds(h1) \cap Fds(h2) = {}
    /\ \A h \in Live :
          /\ Cardinality(Fds(h)) = (IF variant = "pipe" THEN 3 ELSE 1)
          /\ \A fd \in Fds(h) : ~IsFree(fdt, fd)
          /\ \A fr \in pend : fr.s \notin Fds(h)
          /\ \A c \in 1..Len(conns) : ~conns[c].closed => conns[c].s \notin Fds(h)
    /\ \A f1, f2 \in pend : f1 # f2 => f1.s # f2.s

\* A step of one session, or of no session, leaves every other session as it
\* was.
C8_Frame ==
    LET actor == IF rf.pc # "idle" THEN rf.h
                 ELSE IF rf'.pc # "idle" THEN rf'.h
                 ELSE ret'.h
    IN  \A h \in Live :
           h # actor => /\ h \in Live'
                        /\ View(h)' = View(h)

\* C8: two sessions of one conn, however their Hash calls interleaved, own
\* disjoint sockets and pipes, and a Write, ReadFrom, Sum or Close on one
\* leaves the socket, the pipe and the accumulated data of the other
\* unchanged.
C8_SessionsIndependent == [](C8_Disjoint) /\ [][C8_Frame]_vars

\* Two sessions whose Hash calls interleaved (both accepted before either's
\* pipe was made), each with bytes accumulated, the last step a Write on the
\* second.
C8_Witness ==
    /\ variant = "pipe"
    /\ Live = {1, 2}
    /\ hashes[1].c = hashes[2].c
    /\ hashes[1].s + 1 = hashes[2].s \/ hashes[2].s + 1 = hashes[1].s
    /\ ret.op = "Write"
    /\ ret.h = 2
    /\ ret.err = "nil"
    /\ fdt[hashes[1].s].data # <<>>
    /\ fdt[hashes[2].s].data # <<>>

\* What a Write of b on session h can return and leave in the session's
\* socket and pipe, from the descriptor table t.
WriteView(t, h, b) ==
    {[n |-> o.n, err |-> o.err, panic |-> o.panic, s |-> o.t[hashes[h].s],
      pipe |-> IF hashes[h].pipes[1] = 0 THEN <<>>
               ELSE o.t[hashes[h].pipes[1]].data] :
       o \in WriteOutcomes(t, hashes[h], b)}

\* What a Sum on session h can return, from the descriptor table t.
SumView(t, h) ==
    {[n |-> o.n, err |-> o.err, p |-> o.p] :
       o \in SockRead(t, tsock, hashes[h].s, hashes[h].buf)}

\* The step that closes conn c frees the conn's socket and nothing else, and
\* every session keeps what it had and what its operations can do.
C9_Frame ==
    \A c \in 1..Len(conns) :
        (~conns[c].closed /\ conns'[c].closed) =>
            /\ fdt' = [fdt EXCEPT ![conns[c].s] = FreeSlot]
            /\ hashes' = hashes
            /\ pend' = pend
            /\ \A h \in Live :
                  /\ View(h)' = View(h)
                  /\ WriteView(fdt', h, <<1>>) = WriteView(fdt, h, <<1>>)
                  /\ SumView(fdt', h) = SumView(fdt, h)
                  /\ HashCloseFds(fdt', h)[hashes[h].s] = FreeSlot

\* The descriptors of the sessions in use are open, whether or not their
\* conn is.
C9_SessionsOpen ==
    \A h \in Live : \A fd \in Fds(h) : ~IsFree(fdt, fd)

\* C9: closing a conn closes its bound socket only; the sessions made from
\* it keep their socket and pipe open and Write, Sum and Close on them do
\* what they did before.
C9_ConnCloseOnlyBound == [](C9_SessionsOpen) /\ [][C9_Frame]_vars

\* A Write on a session whose conn is closed delivered its bytes.
C9_Witness ==
    /\ ret.op = "Write"
    /\ ret.err = "nil"
    /\ ~ret.panic
    /\ conns[hashes[ret.h].c].closed
    /\ ret.n = Len(ret.b)
    /\ fdt[hashes[ret.h].s].data = ret.b
    /\ fdt[hashes[ret.h].s].more

\* C10: a Dial with a type other than "hash", or with a name other than md5,
\* sha1 and sha256, returns an error and no Conn, makes no system call and
\* leaves descriptors and conns as they were.
C10_DialRejectsEarly ==
    [][(/\ ret'.op = "Dial"
        /\ \/ ret'.typ # typeHash
           \/ ret'.name \notin {nameMD5, nameSHA1, nameSHA256})
       => /\ ret'.err # "nil"
          /\ ret'.c = 0
          /\ calls' = <<>>
          /\ fdt' = fdt
          /\ conns' = conns]_vars

\* Dial("hash", "sha512") returned "unknown hash" while a Conn was open.
C10_Witness ==
    /\ ret.op = "Dial"
    /\ ret.typ = typeHash
    /\ ret.name = "sha512"
    /\ ret.err = "unknown hash"
    /\ Len(conns) = 1
    /\ ~conns[1].closed

\* C11: on a platform without AF_ALG, dial, conn.Hash and conn.Close fail
\* with the one error errUnimplemented whatever their arguments, dial and
\* Hash return no object, and nothing of the system is touched.
C11_OthersUnimplemented ==
    (variant = "others" /\ ret.op # "none") =>
        /\ ret.op \in {"dial", "Hash", "ConnClose"}
        /\ ret.err = errUnimplemented
        /\ ret.c = 0
        /\ ret.h = 0
        /\ conns = <<>>
        /\ hashes = <<>>
        /\ calls = <<>>
        /\ \A fd \in FDs : IsFree(fdt, fd)

\* c.Hash(20, 64) failed, after other calls had.
C11_Witness ==
    /\ variant = "others"
    /\ ret.op = "Hash"
    /\ ret.size = 20
    /\ ret.blockSize = 64
    /\ ret.err = errUnimplemented
    /\ faults >= 3

\* The read of the last Sum failed.
SumReadFailed ==
    /\ ret.op = "Sum"
    /\ Len(calls) = 1
    /\ calls[1].op = "read"
    /\ calls[1].res = ErrN

\* C12: when the read on the session socket fails, Sum panics and hands
\* nothing to its caller, neither the prefix nor a digest.
C12_SumPanicsOnReadError ==
    SumReadFailed => /\ ret.panic
                     /\ ret.val = <<>>
                     /\ ret.n = 0

\* Sum with a prefix on a session that had bytes written: the read failed.
C12_Witness ==
    /\ SumReadFailed
    /\ ret.b # <<>>
    /\ ret.err = "EIO"
    /\ hashes[ret.h].sub > 0

\* C13: when sendfile's or splice's loop ends on a failing call, ReadFrom
\* returns the error with the count of the bytes the session socket received
\* before the failure: never negative, never more than was delivered.
C13_ErrorCountIsDelivered ==
    (/\ ret.op = "ReadFrom"
     /\ ~ret.panic
     /\ ret.err # "nil"
     /\ ret.path \in {"sendfile", "splice"})
    => ret.n = ret.sent

\* The fields of the ihash struct of every session.
Structs ==
    [h \in 1..Len(hashes) |->
        [s |-> hashes[h].s, pipes |-> hashes[h].pipes, buf |-> hashes[h].buf,
         addr |-> hashes[h].addr, size |-> hashes[h].size,
         blockSize |-> hashes[h].blockSize]]

\* C14: Reset is a no-op: the step issues no system call and leaves the
\* session's socket, pipe, scratch buffer and sizes, and what the engine
\* accumulated, as they were, like everything else.
C14_ResetIsNoOp ==
    [][\A h \in 1..Len(hashes) :
          (ret'.op = "Reset" /\ ret'.h = h) =>
              /\ calls' = <<>>
              /\ Engine(h)' = Engine(h)
              /\ PipeOf(h)' = PipeOf(h)
              /\ fdt' = fdt
              /\ Structs' = Structs
              /\ conns' = conns]_vars

\* Reset on a session whose engine holds bytes and is still accumulating.
C14_Witness ==
    /\ ret.op = "Reset"
    /\ Engine(ret.h).data # <<>>
    /\ Engine(ret.h).more
    /\ hashes[ret.h].sub = 2

StrategyOrder == <<"sendfile", "splice", "generic">>

\* C15: for a file that is not capped, ReadFrom tries sendfile, then the
\* mapping, then the buffered copy, each only after those before it declined;
\* the last one tried handles the call and no other moves bytes.
C15_StrategyOrder ==
    /\ (ret.op = "ReadFrom" /\ ret.src.kind = "file") =>
          /\ ret.tried # <<>>
          /\ ret.tried = Take(StrategyOrder, Len(ret.tried))
          /\ ret.path = ret.tried[Len(ret.tried)]
          /\ ret.movers \subseteq {ret.path}
    /\ (rf.pc # "idle" /\ rf.src.kind = "file") =>
          /\ rf.tried # <<>>
          /\ rf.tried = Take(StrategyOrder, Len(rf.tried))
          /\ rf.pc = rf.tried[Len(rf.tried)]
          /\ rf.movers \subseteq {rf.pc}

\* A file both sendfile and the mapping declined: the buffered copy moved
\* its bytes.
C15_Witness ==
    /\ ret.op = "ReadFrom"
    /\ ret.src.kind = "file"
    /\ ret.src.seekable
    /\ ret.src.len > 0
    /\ ret.tried = StrategyOrder
    /\ ret.movers = {"generic"}
    /\ ret.err = "nil"
    /\ ret.n = Len(ret.b)
    /\ ret.n > 0

\* The step that ended the last ReadFrom held a sendfile call that failed.
SendfileFailed ==
    /\ ret.op = "ReadFrom"
    /\ \E i \in 1..Len(calls) : calls[i].op = "sendfile" /\ calls[i].res = ErrN

\* C16: when the sendfile call itself fails, ReadFrom does not return that
\* failure: a later strategy (the mapping, then the buffered copy) handles
\* the call, and the count returned is that of the bytes delivered, none of
\* them counted twice.
C16_SendfileFailureFallsThrough ==
    SendfileFailed => /\ ret.path \in {"splice", "generic"}
                      /\ ret.err # "EINVAL"
                      /\ ret.n = ret.sent

\* The bytes a capped file holds for the call: min(N, R) of them, R those
\* left after the file's position.
CapCount(src) == Min(src.N, src.len - src.pos)

\* C17: a ReadFrom from a LimitedReader around a file, in which no system
\* call failed, does not panic on an index outside the file and returns, with
\* no error, the count min(N, R) of the bytes it delivered to the session
\* socket.
C17_CappedFile ==
    (/\ ret.op = "ReadFrom"
     /\ ret.src.kind = "limfile"
     /\ ret.panic \/ ret.err = "nil")
    => /\ ~ret.panic
       /\ ret.n = CapCount(ret.src)
       /\ ret.sent = CapCount(ret.src)

\* C18: when a ReadFrom handled by sendfile returns, the file's read position
\* is past the bytes it transferred: the position before the call plus the
\* bytes sent.
C18_SendfileAdvancesPosition ==
    (ret.op = "ReadFrom" /\ ret.path = "sendfile" /\ ~ret.panic)
    => ret.fpos = ret.src.pos + ret.sent

\* The splice flag "do not block", which the claim names.
SPLICE_F_NONBLOCK == "SPLICE_F_NONBLOCK"

\* C19: a Write of the pipe build issues a vmsplice of the caller's bytes
\* into the pipe's write end (index 1) with no flags and, when that took
\* bytes, a splice from the read end (index 0) into the session socket with
\* exactly the flags move, non-blocking and more.
C19_WriteFlags ==
    (variant = "pipe" /\ ret.op = "Write" /\ ~ret.panic) =>
        /\ Len(calls) >= 1
        /\ calls[1].op = "vmsplice"
        /\ calls[1].fd = hashes[ret.h].pipes[2]
        /\ calls[1].p = ret.b
        /\ calls[1].flags = {}
        /\ calls[1].res >= 0 =>
              /\ Len(calls) = 2
              /\ calls[2].op = "splice"
              /\ calls[2].fd = hashes[ret.h].pipes[1]
              /\ calls[2].out = hashes[ret.h].s
              /\ calls[2].flags =
                    {SPLICE_F_MOVE, SPLICE_F_NONBLOCK, SPLICE_F_MORE}

\* C20: a ReadFrom that mapped the file has unmapped it exactly once when it
\* ends, whether it returned with no error, returned the error of a Write or
\* panicked; one that mapped nothing unmaps nothing.
C20_MunmapOnce ==
    ret.op = "ReadFrom" =>
        ret.munmaps = (IF ret.path = "splice" THEN 1 ELSE 0)

\* A Write failed in splice's loop after an earlier chunk had gone through.
C20_Witness ==
    /\ ret.op = "ReadFrom"
    /\ ret.path = "splice"
    /\ ~ret.panic
    /\ ret.err # "nil"
    /\ ret.sent > 0
    /\ ret.munmaps = 1

\* C21: the buffered copy drives the session through Write only: ReadFrom is
\* never entered again from within it, so one call of ReadFrom is on the
\* stack at most, and the system calls of the copy are those of Write.
C21_NoReentry ==
    /\ rf.depth <= 1
    /\ rf.pc # "idle" => rf.depth = 1
    /\ ret.op = "ReadFrom" => ret.depth = 1
    /\ (rf.pc = "generic" \/ (ret.op = "ReadFrom" /\ ret.path = "generic")) =>
          \A i \in 1..Len(calls) : calls[i].op \in {"vmsplice", "splice"}

\* The copy of a capped reader that is no file, ended with its bytes sent.
C21_Witness ==
    /\ ret.op = "ReadFrom"
    /\ ret.src.kind = "limreader"
    /\ ret.path = "generic"
    /\ ret.tried = <<"generic">>
    /\ ret.err = "nil"
    /\ ret.n = Len(ret.b)
    /\ ret.n > 0
    /\ ret.depth = 1

\* C22: every ReadFrom ends: whenever one is under way, it returns (or
\* panics) after finitely many turns of its loop.
C22_ReadFromTerminates == (rf.pc # "idle") ~> (rf.pc = "idle")

\* The descriptors held by the Conns and sessions returned so far, and by
\* the Hash calls between their accept and their pipe.
Owned ==
    {conns[c].s : c \in 1..Len(conns)}
    \cup UNION {Fds(h) : h \in 1..Len(hashes)}
    \cup {fr.s : fr \in pend}

\* C23: no descriptor is leaked by a construction that failed: every open
\* descriptor belongs to a Conn or a session that was returned (or to a Hash
\* call still under way).
C23_NoLeakOnFailedConstruction ==
    \A fd \in FDs : ~IsFree(fdt, fd) => fd \in Owned

\* C24: a Write of no bytes on the pipe build returns (0, nil) and does not
\* fault, and a ReadFrom whose source holds no bytes for it and in which no
\* system call failed ends with the count 0 and does not fault.
C24_EmptyTransfers ==
    /\ (variant = "pipe" /\ ret.op = "Write" /\ ret.b = <<>>) =>
          /\ ~ret.panic
          /\ ret.n = 0
          /\ ret.err = "nil"
    /\ (ret.op = "ReadFrom" /\ ret.b = <<>> /\ (ret.panic \/ ret.err = "nil")) =>
          /\ ~ret.panic
          /\ ret.n = 0

\* The bytes of the Writes made on a session since its last Reset.
SinceReset(h) ==
    SubSeq(hashes[h].hist, hashes[h].reset.at + 1, Len(hashes[h].hist))

\* C25: after Reset the session behaves as a newly created one: the first
\* Sum(nil) after a Reset, on a session on which only successful Writes were
\* made and whose pipe holds nothing, returns the digest of the bytes written
\* since that Reset alone, whether or not a Sum came before the Reset.
C25_ResetStartsAfresh ==
    (/\ ret.op = "Sum"
     /\ ~ret.panic
     /\ ret.b = <<>>
     /\ hashes[ret.h].reset.done
     /\ hashes[ret.h].pure
     /\ hashes[ret.h].sums = hashes[ret.h].reset.sums + 1
     /\ PipeOf(ret.h) = <<>>)
    => ret.val = Digest(SinceReset(ret.h))

====
